---- MODULE Spec2Model ----
(***************************************************************************)
(* Model of the lnurl-spark server: the LNURL-pay callback                 *)
(* (routes.rs get_invoice / get_invoice_impl), user registration           *)
(* (routes.rs register) and the model methods Invoice::set_state and       *)
(* User::disable_zaps, run by concurrent request handlers over one         *)
(* relational store (tables users, invoice, zaps) and one wallet.          *)
(***************************************************************************)
EXTENDS Integers, Sequences, FiniteSets, TLC

(* ------------------------------ bounds -------------------------------- *)

\* number of requests served in one behaviour
MaxRequests == 2
\* the configured upper bound on the amount, option --max-sendable
max_sendable == 3000

(* ------------------------- program constants -------------------------- *)

\* config.rs: default of --min-sendable
min_sendable == 1000
\* routes.rs: amount_msats / 1_000
MsatsPerUnit == 1000
\* nostr::Kind::ZapRequest
ZapRequestKind == 9734
\* a nostr kind that is not a zap request (a text note)
TextNoteKind == 1
\* InvoiceState
Pending == 0
Settled == 1
Cancelled == 2
\* HTTP status codes
StatusOk == 200
BadRequest == 400
InternalServerError == 500

domain == "localhost:3000"

(* ------------------------------ options ------------------------------- *)

\* Option<T>: None is the empty sequence, Some(x) the sequence <<x>>
None == <<>>
Some(x) == <<x>>
IsSome(o) == Len(o) = 1
IsNone(o) == Len(o) = 0
Unwrap(o) == o[1]

(* --------------------------- pure functions --------------------------- *)

\* A String is modelled as a sequence of tokens (themselves TLA+ strings);
\* the empty String is the empty sequence.
Str(t) == <<t>>
EmptyStr == <<>>

\* routes.rs calc_metadata: the format! of name and domain
calc_metadata(name, dom) ==
    Str("[[\"text/identifier\",\"" \o name \o "@" \o dom
        \o "\"],[\"text/plain\",\"Sats for " \o name \o "\"]]")

\* sha256::Hash::hash(bytes): a digest is determined by the bytes hashed and by
\* nothing else; collisions are not modelled
sha256(bytes) == [digest_of |-> bytes]

\* the JSON texts a client may send as the nostr parameter
ZapJson == <<"{", "\"kind\"", ":", "9734", "}">>
ZapJsonSpaced == <<"{", " ", "\"kind\"", ":", " ", "9734", " ", "}">>
NoteJson == <<"{", "\"kind\"", ":", "1", "}">>
NotJson == <<"zap">>

IsWhitespace(tok) == tok = " "

RECURSIVE SkipWhitespace(_)
SkipWhitespace(s) ==
    IF s = <<>> THEN <<>>
    ELSE IF IsWhitespace(Head(s)) THEN SkipWhitespace(Tail(s))
    ELSE <<Head(s)>> \o SkipWhitespace(Tail(s))

KindTokens == {"9734", "1"}
ParseKind(tok) == IF tok = "9734" THEN ZapRequestKind ELSE TextNoteKind
FormatKind(k) == IF k = ZapRequestKind THEN "9734" ELSE "1"

\* nostr Event::from_json: Some(event), or None when the text is no event
Event_from_json(s) ==
    LET t == SkipWhitespace(s) IN
    IF /\ Len(t) = 5
       /\ t[1] = "{" /\ t[2] = "\"kind\"" /\ t[3] = ":" /\ t[5] = "}"
       /\ t[4] \in KindTokens
    THEN Some([kind |-> ParseKind(t[4])])
    ELSE None

\* nostr Event::as_json: the canonical serialisation of the parsed event
Event_as_json(e) == <<"{", "\"kind\"", ":", FormatKind(e.kind), "}">>

\* routes.rs empty_string_as_none, for an Option<String> query parameter
empty_string_as_none(opt) ==
    IF IsNone(opt) \/ Unwrap(opt) = EmptyStr THEN None ELSE opt

\* the invoice strings the wallet may return: a BOLT11 text, modelled by the
\* fields it encodes, or a text that is no invoice
Bolt11String(amount, desc_hash, payee, payment_hash) ==
    [hrp |-> "lnbc", amount |-> amount, desc_hash |-> desc_hash,
     payee |-> payee, payment_hash |-> payment_hash]
NotAnInvoice(desc_hash, payee, payment_hash) ==
    [hrp |-> "????", amount |-> None, desc_hash |-> desc_hash,
     payee |-> payee, payment_hash |-> payment_hash]

\* Bolt11Invoice::from_str: Some(invoice), the decoded fields, or None on a
\* parse error
Bolt11Invoice_from_str(s) ==
    IF s.hrp = "lnbc"
    THEN Some([amount |-> s.amount, desc_hash |-> s.desc_hash,
               payee |-> s.payee, payment_hash |-> s.payment_hash])
    ELSE None
\* Bolt11Invoice as Display / Serialize: the encoding of the decoded fields
Bolt11Invoice_to_string(inv) ==
    Bolt11String(inv.amount, inv.desc_hash, inv.payee, inv.payment_hash)
\* Bolt11Invoice::amount_milli_satoshis
amount_milli_satoshis(inv) == inv.amount

\* anyhow::Result: Ok(v) or Err(text)
Ok(v) == [ok |-> TRUE, val |-> v]
Err(e) == [ok |-> FALSE, val |-> e]

\* the error texts of get_invoice_impl
MissingAmount == "Missing amount parameter"
AmountOutOfBounds == "Amount out of bounds"
UserNotFound == "User not found"
IssuanceDisabled == "Zaps are disabled for this user"
InvalidZapRequest == "Invalid zap request"
InvoiceAmountMismatch == "Invoice amount mismatch"
\* the texts of the collaborators' errors
PoolError == "timed out waiting for connection"
DbError == "database error"
WalletError == "wallet error"
Bolt11ParseError == "bolt11 parse error"

(* ------------------------------- state -------------------------------- *)

VARIABLES
    users,           \* table users: rows [id, pubkey, name, disabled_zaps]
    invoice,         \* table invoice: the committed rows
    zaps,            \* table zaps: the committed rows
    users_id_seq,    \* next value of the serial users.id
    invoice_id_seq,  \* next value of the serial invoice.id
    handler,         \* per request handler: the locals of the request it serves
    origin,          \* history: which request committed which row
    served           \* history: number of requests started

vars == <<users, invoice, zaps, users_id_seq, invoice_id_seq, handler,
          origin, served>>

\* the request handlers that may be in flight at the same time
Handlers == 1 .. 2

Names == {"alice", "bob"}
Pubkeys == {"02aa", "03bb"}

\* the amounts a client may send: absent, around both bounds, inside them with
\* and without a sub-unit remainder
Amounts ==
    {None, Some(min_sendable - 1), Some(min_sendable), Some(min_sendable + 500),
     Some(max_sendable), Some(max_sendable + 1)}
\* the comment and nostr query parameters before deserialisation
RawComments == {Some(Str("thanks"))}
RawNostrs ==
    {None, Some(EmptyStr), Some(ZapJson), Some(ZapJsonSpaced), Some(NoteJson),
     Some(NotJson)}
\* the values Invoice::set_state may be called with (any i32)
StateValues == {Pending, Settled, Cancelled, 3}

(* ------------------------------ the store ----------------------------- *)

\* a faulty variant of User_get_by_name: the filter on the name is missing
User_get_by_name_unfiltered(tbl, name) ==
    IF tbl # {} THEN {Some(u) : u \in tbl} ELSE {None}

\* User::get_by_name: filter(name.eq(name)).first().optional(); without an
\* ORDER BY the store may return any matching row
User_get_by_name(tbl, name) ==
    IF \E u \in tbl : u.name = name
    THEN {Some(u) : u \in {v \in tbl : v.name = name}}
    ELSE {None}

\* NewUser::insert: the store assigns the id and the default of disabled_zaps
NewUser_insert(new_user, id) ==
    [id |-> id, pubkey |-> new_user.pubkey, name |-> new_user.name,
     disabled_zaps |-> FALSE]

\* User::disable_zaps: update ... where name = self.name
User_disable_zaps(tbl, self) ==
    {IF u.name = self.name THEN [u EXCEPT !.disabled_zaps = TRUE] ELSE u
       : u \in tbl}

\* NewInvoice::insert: the store assigns the id
NewInvoice_insert(new_invoice, id) ==
    [id |-> id, user_id |-> new_invoice.user_id, bolt11 |-> new_invoice.bolt11,
     amount_msats |-> new_invoice.amount_msats,
     preimage |-> new_invoice.preimage,
     lnurlp_comment |-> new_invoice.lnurlp_comment,
     state |-> new_invoice.state]

\* a faulty variant of Invoice_set_state: the filter on the id is missing
Invoice_set_state_every_row(tbl, self, s) ==
    {[i EXCEPT !.state = s] : i \in tbl}

\* Invoice::set_state: update invoice set state = s where id = self.id
Invoice_set_state(tbl, self, s) ==
    {IF i.id = self.id THEN [i EXCEPT !.state = s] ELSE i : i \in tbl}

\* Zap::insert: the row is inserted as given, unless the primary key zaps (id)
\* is taken
Zap_insert_conflict(tbl, zap) == \E z \in tbl : z.id = zap.id

\* the locals of a handler that serves no request. seen is what the request's
\* User::get_by_name returned, None while it has not (successfully) run; log
\* lists the steps the request has taken.
Idle ==
    [route |-> "none", pc |-> "idle", req |-> 0,
     name |-> "", amount |-> None, comment |-> None, nostr |-> None,
     pubkey |-> "", pay_hash |-> None,
     seen |-> None, user |-> None, zap_request |-> None, desc_hash |-> None, resp |-> None,
     tx_open |-> FALSE, tx_invoice |-> {}, tx_zaps |-> {},
     response |-> None, log |-> <<>>]

\* the store when the server starts: freshly migrated, or holding the user
\* that one earlier registration has left
InitialUsers ==
    {{}, {NewUser_insert([pubkey |-> "02aa", name |-> "alice"], 1)}}

Init ==
    /\ users \in InitialUsers
    /\ invoice = {}
    /\ zaps = {}
    /\ users_id_seq = 1 + Cardinality(users)
    /\ invoice_id_seq = 1
    /\ handler = [h \in Handlers |-> Idle]
    /\ origin = {}
    /\ served = 0

(* ------------------- get_invoice_impl, step by step ------------------- *)

\* routes.rs 170-201: the pay-parameters document that
\* GET /.well-known/lnurlp/{name} returns
get_lnurl_pay(name) ==
    IF name = ""
    THEN Err("Name parameter is required")
    ELSE Ok([callback |-> "https://" \o domain \o "/get-invoice/" \o name,
             min_sendable |-> min_sendable, max_sendable |-> max_sendable,
             tag |-> "payRequest",
             metadata |-> calc_metadata(name, domain),
             comment_allowed |-> Some(100), allows_nostr |-> Some(TRUE)])

\* a faulty variant of amount_out_of_bounds: the bounds are taken as exclusive
amount_out_of_bounds_exclusive(amount_msats) ==
    amount_msats <= min_sendable \/ amount_msats >= max_sendable

\* routes.rs 54: the bounds check
amount_out_of_bounds(amount_msats) ==
    amount_msats < min_sendable \/ amount_msats > max_sendable

\* a faulty variant of zap_and_hash: the digest is taken of the re-serialised event
zap_and_hash_of_parsed(name, nostr, user) ==
    IF IsNone(nostr)
    THEN Ok([user |-> user, zap_request |-> None,
             desc_hash |-> sha256(calc_metadata(name, domain))])
    ELSE LET event == Event_from_json(Unwrap(nostr)) IN
         IF IsNone(event) THEN Err(InvalidZapRequest)
         ELSE IF Unwrap(event).kind # ZapRequestKind THEN Err(InvalidZapRequest)
         ELSE Ok([user |-> user, zap_request |-> event,
                  desc_hash |-> sha256(Event_as_json(Unwrap(event)))])

\* routes.rs 66-80: the zap request and the description hash
zap_and_hash(name, nostr, user) ==
    IF IsNone(nostr)
    THEN Ok([user |-> user, zap_request |-> None,
             desc_hash |-> sha256(calc_metadata(name, domain))])
    ELSE LET event == Event_from_json(Unwrap(nostr)) IN
         IF IsNone(event) THEN Err(InvalidZapRequest)
         ELSE IF Unwrap(event).kind # ZapRequestKind THEN Err(InvalidZapRequest)
         ELSE Ok([user |-> user, zap_request |-> event,
                  desc_hash |-> sha256(Unwrap(nostr))])

\* a faulty variant of validate: the check of user.disabled_zaps is missing
validate_no_disabled_check(name, amount, nostr, conn_ok, lookup) ==
    IF IsNone(amount) THEN Err(MissingAmount)
    ELSE IF amount_out_of_bounds(Unwrap(amount)) THEN Err(AmountOutOfBounds)
    ELSE IF ~conn_ok THEN Err(PoolError)
    ELSE IF ~lookup.ok THEN Err(lookup.val)
    ELSE IF IsNone(lookup.val) THEN Err(UserNotFound)
    ELSE zap_and_hash(name, nostr, Unwrap(lookup.val))

\* a faulty variant of validate: user.disabled_zaps is checked only for a request
\* without a zap request
validate_disabled_only_without_zap(name, amount, nostr, conn_ok, lookup) ==
    IF IsNone(amount) THEN Err(MissingAmount)
    ELSE IF amount_out_of_bounds(Unwrap(amount)) THEN Err(AmountOutOfBounds)
    ELSE IF ~conn_ok THEN Err(PoolError)
    ELSE IF ~lookup.ok THEN Err(lookup.val)
    ELSE IF IsNone(lookup.val) THEN Err(UserNotFound)
    ELSE IF IsNone(nostr) /\ Unwrap(lookup.val).disabled_zaps
         THEN Err(IssuanceDisabled)
    ELSE zap_and_hash(name, nostr, Unwrap(lookup.val))

\* a faulty variant of validate: the user is looked up before the amount is checked
validate_user_first(name, amount, nostr, conn_ok, lookup) ==
    IF ~conn_ok THEN Err(PoolError)
    ELSE IF ~lookup.ok THEN Err(lookup.val)
    ELSE IF IsNone(lookup.val) THEN Err(UserNotFound)
    ELSE IF IsNone(amount) THEN Err(MissingAmount)
    ELSE IF amount_out_of_bounds(Unwrap(amount)) THEN Err(AmountOutOfBounds)
    ELSE IF Unwrap(lookup.val).disabled_zaps THEN Err(IssuanceDisabled)
    ELSE zap_and_hash(name, nostr, Unwrap(lookup.val))

\* routes.rs 50-80: everything before the wallet call. conn_ok: db_pool.get()
\* succeeded; lookup: the result of User::get_by_name, Ok(Option<User>) or Err
validate(name, amount, nostr, conn_ok, lookup) ==
    IF IsNone(amount) THEN Err(MissingAmount)
    ELSE IF amount_out_of_bounds(Unwrap(amount)) THEN Err(AmountOutOfBounds)
    ELSE IF ~conn_ok THEN Err(PoolError)
    ELSE IF ~lookup.ok THEN Err(lookup.val)
    ELSE IF IsNone(lookup.val) THEN Err(UserNotFound)
    ELSE IF Unwrap(lookup.val).disabled_zaps THEN Err(IssuanceDisabled)
    ELSE zap_and_hash(name, nostr, Unwrap(lookup.val))

\* a faulty variant of after_wallet_call: the call is made again after an error
after_wallet_call_retries(answer) == IF answer.ok THEN "check" ELSE "wallet"

\* routes.rs 82-91: create_lightning_invoice(..).await?: an error of the wallet
\* leaves the function, an answer is checked next
after_wallet_call(answer) == IF answer.ok THEN "check" ELSE "done"

\* a faulty variant of wallet_units: the amount is rounded up to whole units
wallet_units_rounded_up(amount_msats) ==
    (amount_msats + MsatsPerUnit - 1) \div MsatsPerUnit

\* routes.rs 85: the amount the wallet is asked for
wallet_units(amount_msats) == amount_msats \div MsatsPerUnit

\* a faulty variant of check_invoice: the amount is compared after the truncation to units
check_invoice_truncated(resp, amount_msats) ==
    LET parsed == Bolt11Invoice_from_str(resp.invoice) IN
    IF IsNone(parsed) THEN Err(Bolt11ParseError)
    ELSE IF \/ IsNone(amount_milli_satoshis(Unwrap(parsed)))
            \/ Unwrap(amount_milli_satoshis(Unwrap(parsed)))
                 # wallet_units(amount_msats) * MsatsPerUnit
         THEN Err(InvoiceAmountMismatch)
    ELSE Ok(Unwrap(parsed))

\* routes.rs 93-98: parse the returned invoice and compare its amount
check_invoice(resp, amount_msats) ==
    LET parsed == Bolt11Invoice_from_str(resp.invoice) IN
    IF IsNone(parsed) THEN Err(Bolt11ParseError)
    ELSE IF \/ IsNone(amount_milli_satoshis(Unwrap(parsed)))
            \/ Unwrap(amount_milli_satoshis(Unwrap(parsed))) # amount_msats
         THEN Err(InvoiceAmountMismatch)
    ELSE Ok(Unwrap(parsed))

\* a faulty variant of after_wallet: the mismatch is detected but the function goes on
after_wallet_no_return(res) == "transaction"

\* routes.rs 58-80 / 91-98: where the request continues after a step that
\* returned res (the ? and return Err(..) leave the function)
after_validate(res) == IF res.ok THEN "wallet" ELSE "done"
after_wallet(res) == IF res.ok THEN "transaction" ELSE "done"

\* routes.rs 101-108: the row to insert
new_invoice(user, resp, amount_msats, comment) ==
    [user_id |-> user.id, bolt11 |-> resp.invoice,
     amount_msats |-> amount_msats,
     preimage |-> IF IsSome(resp.payment_preimage)
                    THEN Unwrap(resp.payment_preimage) ELSE EmptyStr,
     lnurlp_comment |-> comment, state |-> Pending]

\* routes.rs 112-116: the zap row to insert
new_zap(zap_request) ==
    [id |-> 0, request |-> Event_as_json(zap_request), event_id |-> None]

\* a faulty variant of tx_write: the write is not inside the transaction and is visible
\* at once
tx_write_autocommit(committed, pending, row) ==
    [committed |-> committed \cup {row}, pending |-> pending]

\* routes.rs 100: inside conn.transaction a write is pending until the commit;
\* [committed, pending] are the rows of one table as others and this
\* transaction see them
tx_write(committed, pending, row) ==
    [committed |-> committed, pending |-> pending \cup {row}]

\* a faulty variant of after_insert_invoice: the zap row is never inserted
after_insert_invoice_no_zap(zap_request) == "commit"

\* routes.rs 111: the zap row is inserted only for a request with a zap request
after_insert_invoice(zap_request) ==
    IF IsSome(zap_request) THEN "insert_zap" ELSE "commit"

\* a faulty variant of after_transaction: the result of the transaction is not looked at
after_transaction_ignores_failure(tx, inv) == Ok(inv)

\* routes.rs 100, 120-123: conn.transaction(..)?; Ok(invoice). tx is the result
\* of the transaction, inv the invoice parsed at routes.rs 93
after_transaction(tx, inv) == IF tx.ok THEN Ok(inv) ELSE tx

\* routes.rs 372-378
handle_anyhow_error(err) ==
    [status |-> BadRequest,
     body |-> [status |-> "ERROR", reason |-> err, pr |-> None]]

\* routes.rs 142-154: the response of the route
get_invoice(res) ==
    IF res.ok
    THEN [status |-> StatusOk,
          body |-> [status |-> "OK", reason |-> "",
                    pr |-> Some(Bolt11Invoice_to_string(res.val))]]
    ELSE handle_anyhow_error(res.val)

\* a request is given to the first handler that serves none
Free(h) ==
    /\ handler[h].pc \in {"idle", "done"}
    /\ \A o \in Handlers : o < h => handler[o].pc \notin {"idle", "done"}

\* the record of a row committed by the request that handler-locals l serve
Origin(table, id, l) ==
    [table |-> table, id |-> id, req |-> l.req, name |-> l.name,
     amount |-> l.amount, nostr |-> l.nostr]

\* the function returns: the route renders the result and the locals are kept
\* for inspection until the handler takes its next request
Return(l, res, events) ==
    [l EXCEPT !.pc = "done", !.response = Some(get_invoice(res)),
              !.tx_open = FALSE, !.tx_invoice = {}, !.tx_zaps = {},
              !.log = l.log \o events]

\* routes.rs 93: the local invoice of a request that holds the wallet's answer
parsed(l) == Unwrap(Bolt11Invoice_from_str(Unwrap(l.resp).invoice))

\* GET /get-invoice/{name}?amount&comment&nostr arrives; routes.rs 50-80 run.
\* The one read of the store is User::get_by_name.
GetInvoiceValidate(h) ==
    /\ Free(h)
    /\ served < MaxRequests
    /\ \E name \in Names, amount \in Amounts, raw_comment \in RawComments,
          raw_nostr \in RawNostrs, conn_ok \in BOOLEAN, db_ok \in BOOLEAN :
       \E found \in User_get_by_name(users, name) :
        LET comment == empty_string_as_none(raw_comment)
            nostr == empty_string_as_none(raw_nostr)
            lookup == IF db_ok THEN Ok(found) ELSE Err(DbError)
            res == validate(name, amount, nostr, conn_ok, lookup)
            queried == /\ IsSome(amount)
                       /\ ~amount_out_of_bounds(Unwrap(amount))
                       /\ conn_ok /\ db_ok
            l == [Idle EXCEPT !.route = "get_invoice", !.req = served + 1,
                              !.name = name, !.amount = amount,
                              !.comment = comment, !.nostr = nostr,
                              !.seen = IF queried THEN Some(found) ELSE None]
        IN  handler' = [handler EXCEPT ![h] =
              IF after_validate(res) = "done"
              THEN Return(l, res, <<>>)
              ELSE [l EXCEPT !.pc = after_validate(res),
                             !.user = Some(res.val.user),
                             !.zap_request = res.val.zap_request,
                             !.desc_hash = Some(res.val.desc_hash),
                             !.log = <<"validated">>]]
    /\ served' = served + 1
    /\ UNCHANGED <<users, invoice, zaps, users_id_seq, invoice_id_seq, origin>>

\* what wallet.create_lightning_invoice(units, desc_hash, payee) may answer: an
\* error, or an invoice string (with any amount, or none, or no invoice at
\* all) and optionally the preimage
WalletAnswers(units, desc_hash, payee, payment_hash) ==
    {Err(WalletError)}
    \cup {Ok([invoice |-> NotAnInvoice(desc_hash, payee, payment_hash),
              payment_preimage |-> None])}
    \cup {Ok([invoice |-> Bolt11String(a, desc_hash, payee, payment_hash),
              payment_preimage |-> p]) :
            a \in {None, Some(units * MsatsPerUnit),
                   Some(units * MsatsPerUnit + 500)},
            p \in {Some(Str("preimage"))}}
    \cup {Ok([invoice |-> Bolt11String(Some(units * MsatsPerUnit), desc_hash,
                                       payee, payment_hash),
              payment_preimage |-> None])}

\* routes.rs 82-98: the wallet call, and the check of what it returned
GetInvoiceWallet(h) ==
    LET l == handler[h]
        amount_msats == Unwrap(l.amount)
    IN
    /\ l.pc = "wallet"
    /\ \E answer \in WalletAnswers(wallet_units(amount_msats),
                                   Unwrap(l.desc_hash), Unwrap(l.user).pubkey,
                                   l.req) :
        IF after_wallet_call(answer) = "done"
        THEN handler' = [handler EXCEPT ![h] =
                    Return(l, answer, <<"wallet_call">>)]
        ELSE IF after_wallet_call(answer) # "check"
        THEN handler' = [handler EXCEPT ![h] =
                    [l EXCEPT !.pc = after_wallet_call(answer),
                              !.log = l.log \o <<"wallet_call">>]]
        ELSE LET res == check_invoice(answer.val, amount_msats) IN
             handler' = [handler EXCEPT ![h] =
                    IF after_wallet(res) = "done"
                    THEN Return([l EXCEPT !.resp = Some(answer.val)], res,
                                <<"wallet_call", "amount_checked">>)
                    ELSE [l EXCEPT !.pc = after_wallet(res),
                                   !.resp = Some(answer.val),
                                   !.log = l.log \o
                                       <<"wallet_call", "amount_checked">>]]
    /\ UNCHANGED <<users, invoice, zaps, users_id_seq, invoice_id_seq, origin,
                   served>>

\* routes.rs 100-109: the transaction begins and the Invoice row is inserted
GetInvoiceInsertInvoice(h) ==
    LET l == handler[h]
        row == NewInvoice_insert(
                   new_invoice(Unwrap(l.user), Unwrap(l.resp),
                               Unwrap(l.amount), l.comment),
                   invoice_id_seq)
        w == tx_write(invoice, l.tx_invoice, row)
    IN
    /\ l.pc = "transaction"
    /\ \E db_ok \in BOOLEAN :
        IF db_ok /\ \E u \in users : u.id = row.user_id
        THEN /\ invoice' = w.committed
             /\ invoice_id_seq' = invoice_id_seq + 1
             /\ handler' = [handler EXCEPT ![h] =
                    [l EXCEPT !.pc = after_insert_invoice(l.zap_request),
                              !.tx_open = TRUE,
                              !.tx_invoice = w.pending,
                              !.log = l.log \o <<"begin", "insert_invoice">>]]
        ELSE /\ handler' = [handler EXCEPT ![h] =
                    Return(l, after_transaction(Err(DbError), parsed(l)),
                           <<"begin", "rollback">>)]
             /\ UNCHANGED <<invoice, invoice_id_seq>>
    /\ UNCHANGED <<users, zaps, users_id_seq, origin, served>>

\* routes.rs 111-118: the Zap row is inserted in the same transaction. An
\* insert of a key that another open transaction has inserted waits for it.
\* db_ok = FALSE stands for every failure of the store, a violated constraint
\* of the schema (zaps.id references invoice.id) included.
GetInvoiceInsertZap(h) ==
    LET l == handler[h]
        zap == new_zap(Unwrap(l.zap_request))
        w == tx_write(zaps, l.tx_zaps, zap)
    IN
    /\ l.pc = "insert_zap"
    /\ \A o \in Handlers \ {h} : ~Zap_insert_conflict(handler[o].tx_zaps, zap)
    /\ \E db_ok \in BOOLEAN :
        IF db_ok /\ ~Zap_insert_conflict(zaps, zap)
        THEN /\ zaps' = w.committed
             /\ handler' = [handler EXCEPT ![h] =
                    [l EXCEPT !.pc = "commit", !.tx_zaps = w.pending,
                              !.log = l.log \o <<"insert_zap">>]]
        ELSE /\ handler' = [handler EXCEPT ![h] =
                    Return(l, after_transaction(Err(DbError), parsed(l)),
                           <<"rollback">>)]
             /\ UNCHANGED zaps
    /\ UNCHANGED <<users, invoice, users_id_seq, invoice_id_seq,
                   origin, served>>

\* routes.rs 120-123: the closure returns Ok, the transaction commits and the
\* invoice is returned; a failed commit rolls back
GetInvoiceCommit(h) ==
    LET l == handler[h] IN
    /\ l.pc = "commit"
    /\ \E db_ok \in BOOLEAN :
        IF db_ok
        THEN /\ invoice' = invoice \cup l.tx_invoice
             /\ zaps' = zaps \cup l.tx_zaps
             /\ origin' = origin
                   \cup {Origin("invoice", i.id, l) : i \in l.tx_invoice}
                   \cup {Origin("zaps", z.id, l) : z \in l.tx_zaps}
             /\ handler' = [handler EXCEPT ![h] =
                    Return(l, after_transaction(Ok("committed"), parsed(l)),
                           <<"commit">>)]
        ELSE /\ handler' = [handler EXCEPT ![h] =
                    Return(l, after_transaction(Err(DbError), parsed(l)),
                           <<"rollback">>)]
             /\ UNCHANGED <<invoice, zaps, origin>>
    /\ UNCHANGED <<users, users_id_seq, invoice_id_seq, served>>

(* ------------------------------ register ------------------------------ *)

\* a faulty variant of register_lookup: a taken name does not end the request
register_lookup_ignores_taken(conn_ok, lookup) ==
    IF ~conn_ok
    THEN Some([status |-> InternalServerError, body |-> "ServerError"])
    ELSE IF ~lookup.ok
    THEN Some([status |-> InternalServerError, body |-> "ServerError"])
    ELSE None

\* routes.rs 224-239: the connection and the name lookup; the response that
\* ends the request here, or None when the request goes on to the insert
register_lookup(conn_ok, lookup) ==
    IF ~conn_ok
    THEN Some([status |-> InternalServerError, body |-> "ServerError"])
    ELSE IF ~lookup.ok
    THEN Some([status |-> InternalServerError, body |-> "ServerError"])
    ELSE IF IsSome(lookup.val)
    THEN Some([status |-> BadRequest, body |-> "NameTaken"])
    ELSE None

\* routes.rs 241-244
new_user(name, pubkey) == [pubkey |-> pubkey, name |-> name]

\* routes.rs 245-251: the response after the insert; inserted is Ok(User) or Err
register_insert(inserted) ==
    IF inserted.ok
    THEN [status |-> StatusOk, body |-> [name |-> inserted.val.name]]
    ELSE [status |-> InternalServerError, body |-> "ServerError"]

\* POST /v1/register {name, pubkey} arrives; routes.rs 224-239 run
RegisterLookup(h) ==
    /\ Free(h)
    /\ served < MaxRequests
    /\ \E name \in Names, pubkey \in Pubkeys, conn_ok \in BOOLEAN,
          db_ok \in BOOLEAN :
       \E found \in User_get_by_name(users, name) :
        LET lookup == IF db_ok THEN Ok(found) ELSE Err(DbError)
            early == register_lookup(conn_ok, lookup)
            l == [Idle EXCEPT !.route = "register", !.req = served + 1,
                              !.name = name, !.pubkey = pubkey,
                              !.seen = IF conn_ok /\ db_ok
                                         THEN Some(found) ELSE None,
                              !.log = IF conn_ok /\ db_ok
                                        THEN <<"lookup">> ELSE <<>>]
        IN  handler' = [handler EXCEPT ![h] =
              IF IsSome(early)
              THEN [l EXCEPT !.pc = "done", !.response = early]
              ELSE [l EXCEPT !.pc = "register_insert"]]
    /\ served' = served + 1
    /\ UNCHANGED <<users, invoice, zaps, users_id_seq, invoice_id_seq, origin>>

\* routes.rs 241-251: NewUser::insert, outside any transaction
RegisterInsert(h) ==
    LET l == handler[h]
        row == NewUser_insert(new_user(l.name, l.pubkey), users_id_seq)
    IN
    /\ l.pc = "register_insert"
    /\ \E db_ok \in BOOLEAN :
        IF db_ok
        THEN /\ users' = users \cup {row}
             /\ users_id_seq' = users_id_seq + 1
             /\ origin' = origin \cup {Origin("users", row.id, l)}
             /\ handler' = [handler EXCEPT ![h] =
                    [l EXCEPT !.pc = "done",
                              !.response = Some(register_insert(Ok(row))),
                              !.log = l.log \o <<"insert_user">>]]
        ELSE /\ handler' = [handler EXCEPT ![h] =
                    [l EXCEPT !.pc = "done",
                              !.response =
                                  Some(register_insert(Err(DbError)))]]
             /\ UNCHANGED <<users, users_id_seq, origin>>
    /\ UNCHANGED <<invoice, zaps, invoice_id_seq, served>>

(* ------------------------------- verify ------------------------------- *)

\* the error text of verify
InvalidPaymentHash == "Invalid payment hash"

\* routes.rs 272-283: the route ignores both path parameters and the state
verify(desc_hash, pay_hash) ==
    [status |-> BadRequest,
     body |-> [status |-> "ERROR", reason |-> InvalidPaymentHash]]

\* the path parameters a client may send: the hashes of an invoice that is in
\* the store, or hashes of no invoice
VerifyInputs ==
    {[desc_hash |-> i.bolt11.desc_hash, pay_hash |-> i.bolt11.payment_hash]
       : i \in invoice}
    \cup {[desc_hash |-> sha256(NotJson), pay_hash |-> 0]}

\* GET /verify/{desc_hash}/{pay_hash} arrives and is answered
Verify(h) ==
    /\ Free(h)
    /\ served < MaxRequests
    /\ \E in \in VerifyInputs :
        handler' = [handler EXCEPT ![h] =
            [Idle EXCEPT !.route = "verify", !.req = served + 1,
                         !.pc = "done",
                         !.desc_hash = Some(in.desc_hash),
                         !.pay_hash = Some(in.pay_hash),
                         !.response =
                             Some(verify(in.desc_hash, in.pay_hash))]]
    /\ served' = served + 1
    /\ UNCHANGED <<users, invoice, zaps, users_id_seq, invoice_id_seq, origin>>

(* --------------------------- model methods ---------------------------- *)

\* Invoice::set_state called on a loaded invoice with any i32
SetState ==
    /\ \E self \in invoice, s \in StateValues :
        invoice' = Invoice_set_state(invoice, self, s)
    /\ UNCHANGED <<users, zaps, users_id_seq, invoice_id_seq, handler, origin, served>>

\* User::disable_zaps called on a loaded user
DisableZaps ==
    /\ \E self \in users : users' = User_disable_zaps(users, self)
    /\ UNCHANGED <<invoice, zaps, users_id_seq, invoice_id_seq, handler, origin, served>>

Next ==
    \/ \E h \in Handlers : GetInvoiceValidate(h)
    \/ \E h \in Handlers : GetInvoiceWallet(h)
    \/ \E h \in Handlers : GetInvoiceInsertInvoice(h)
    \/ \E h \in Handlers : GetInvoiceInsertZap(h)
    \/ \E h \in Handlers : GetInvoiceCommit(h)
    \/ \E h \in Handlers : RegisterLookup(h)
    \/ \E h \in Handlers : RegisterInsert(h)
    \/ \E h \in Handlers : Verify(h)
    \/ SetState
    \/ DisableZaps

Spec == Init /\ [][Next]_vars

(* ============================== claims ================================ *)

\* the requests of the callback route
Callbacks == {h \in Handlers : handler[h].route = "get_invoice"}
Registrations == {h \in Handlers : handler[h].route = "register"}

Reason(l) == Unwrap(l.response).body.reason
Status(l) == Unwrap(l.response).status

\* no row that the request of locals l inserted is visible, and it holds none
\* in an open transaction
NoRowsBy(l) ==
    /\ \A o \in origin : o.req # l.req
    /\ \A i \in invoice : i.bolt11.payment_hash # l.req
    /\ l.tx_invoice = {} /\ l.tx_zaps = {}

\* the wallet returned a well-formed invoice whose amount is absent or is not
\* the requested one
WalletAmountDiffers(l) ==
    /\ IsSome(l.resp)
    /\ Unwrap(l.resp).invoice.hrp = "lnbc"
    /\ \/ Unwrap(l.resp).invoice.amount = None
       \/ Unwrap(Unwrap(l.resp).invoice.amount) # Unwrap(l.amount)

\* C1: whenever the invoice the wallet returned carries no amount or an amount
\* other than the requested amount_msats, the request has failed with the
\* amount-mismatch error, no invoice is in the response, and no Invoice or Zap
\* row of this request exists.
C1_MismatchFailsAndWritesNothing ==
    \A h \in Callbacks :
        LET l == handler[h] IN
        WalletAmountDiffers(l) =>
            /\ l.pc = "done"
            /\ Status(l) = BadRequest
            /\ Reason(l) = InvoiceAmountMismatch
            /\ Unwrap(l.response).body.pr = None
            /\ NoRowsBy(l)

\* C1 witness: a request whose wallet answer carried another amount has ended
C1_Witness ==
    \E h \in Callbacks :
        /\ WalletAmountDiffers(handler[h])
        /\ Unwrap(handler[h].resp).invoice.amount # None
        /\ handler[h].pc = "done"

\* the rows a request committed, by the history
CommittedBy(table, req) == {o \in origin : o.table = table /\ o.req = req}

\* C2: persistence of a callback is atomic. Every visible Invoice or Zap row
\* was committed by a request; a request that supplied a zap request has
\* committed its Invoice row if and only if it has committed its Zap row; and
\* a request that failed (the Zap insert or the commit failed after the Invoice
\* insert) has left no row visible.
C2_PersistenceIsAtomic ==
    /\ \A i \in invoice : \E o \in origin : o.table = "invoice" /\ o.id = i.id
    /\ \A z \in zaps : \E o \in origin : o.table = "zaps" /\ o.id = z.id
    /\ \A o \in origin :
         /\ o.table = "invoice" =>
              /\ \E i \in invoice : i.id = o.id
              /\ IsSome(o.nostr) <=> CommittedBy("zaps", o.req) # {}
         /\ o.table = "zaps" =>
              /\ \E z \in zaps : z.id = o.id
              /\ CommittedBy("invoice", o.req) # {}
    /\ \A h \in Callbacks :
         LET l == handler[h] IN
         (l.pc = "done" /\ Status(l) # StatusOk) => NoRowsBy(l)

\* C2 witness: the Zap insert failed after the Invoice insert had succeeded
C2_Witness ==
    \E h \in Callbacks :
        LET l == handler[h] IN
        /\ l.pc = "done"
        /\ IsSome(l.zap_request)
        /\ l.log = <<"validated", "wallet_call", "amount_checked", "begin",
                     "insert_invoice", "rollback">>
        /\ Status(l) = BadRequest
        /\ \A i \in invoice : i.bolt11.payment_hash # l.req

\* the first place of event e in log, 0 when it is not there
RECURSIVE Place(_, _)
Place(log, e) ==
    IF log = <<>> THEN 0
    ELSE IF Head(log) = e THEN 1
    ELSE IF Place(Tail(log), e) = 0 THEN 0
    ELSE 1 + Place(Tail(log), e)

Occurs(log, e) == Place(log, e) # 0
\* e occurs in log only after d
Precedes(log, d, e) ==
    Occurs(log, e) => (Occurs(log, d) /\ Place(log, d) < Place(log, e))

\* the five validation checks hold of a request, by what it sent and by the
\* user row it read
PassedValidation(l) ==
    /\ IsSome(l.amount)
    /\ Unwrap(l.amount) >= min_sendable /\ Unwrap(l.amount) <= max_sendable
    /\ IsSome(l.seen) /\ IsSome(Unwrap(l.seen))
    /\ ~Unwrap(Unwrap(l.seen)).disabled_zaps
    /\ l.nostr \in {None, Some(ZapJson), Some(ZapJsonSpaced)}

\* C3: the steps of one callback are strictly ordered. The wallet is called
\* only after all five validation checks have passed; the transaction begins
\* only after the wallet has returned and the returned amount has been found
\* equal to the requested one; rows are inserted only inside the transaction
\* and visible only after its commit.
C3_StepsAreOrdered ==
    \A h \in Callbacks :
        LET l == handler[h] IN
        /\ Precedes(l.log, "validated", "wallet_call")
        /\ Precedes(l.log, "wallet_call", "amount_checked")
        /\ Precedes(l.log, "amount_checked", "begin")
        /\ Precedes(l.log, "begin", "insert_invoice")
        /\ Precedes(l.log, "insert_invoice", "insert_zap")
        /\ Precedes(l.log, "insert_invoice", "commit")
        /\ (Occurs(l.log, "wallet_call") \/ l.pc = "wallet")
              => PassedValidation(l)
        /\ (Occurs(l.log, "begin") \/ l.pc = "transaction")
              => (IsSome(l.resp) /\ ~WalletAmountDiffers(l)
                  /\ Unwrap(l.resp).invoice.hrp = "lnbc")
        /\ (l.tx_invoice # {} \/ l.tx_zaps # {}) => Occurs(l.log, "begin")
        /\ ~NoRowsBy(l) => Occurs(l.log, "insert_invoice")
        /\ CommittedBy("invoice", l.req) # {} => Occurs(l.log, "commit")

\* C3 witness: a callback has gone through every step, the Zap insert included
C3_Witness ==
    \E h \in Callbacks :
        handler[h].log = <<"validated", "wallet_call", "amount_checked",
                           "begin", "insert_invoice", "insert_zap", "commit">>

\* the request of locals l has made no wallet call: none is logged and it holds
\* no answer of the wallet
NoWalletCall(l) ==
    /\ ~Occurs(l.log, "wallet_call")
    /\ IsNone(l.resp)

ValidationErrors ==
    {MissingAmount, AmountOutOfBounds, UserNotFound, IssuanceDisabled,
     InvalidZapRequest}

\* the request violates one of the five checks, by what it sent and by the user
\* row it read (a violated check hides the ones after it: the user is read
\* only for a good amount)
AmountAbsent(l) == IsNone(l.amount)
AmountOutside(l) ==
    IsSome(l.amount)
    /\ (Unwrap(l.amount) < min_sendable \/ Unwrap(l.amount) > max_sendable)
UserUnknown(l) == IsSome(l.seen) /\ IsNone(Unwrap(l.seen))
UserDisabled(l) ==
    IsSome(l.seen) /\ IsSome(Unwrap(l.seen))
    /\ Unwrap(Unwrap(l.seen)).disabled_zaps
ZapInvalid(l) == l.nostr \in {Some(NoteJson), Some(NotJson)}

\* the state part of C4
C4_State ==
    \A h \in Callbacks :
        LET l == handler[h] IN
        ( \/ AmountAbsent(l) \/ AmountOutside(l) \/ UserUnknown(l)
          \/ UserDisabled(l) \/ ZapInvalid(l)
          \/ (l.pc = "done" /\ Status(l) # StatusOk
                /\ Reason(l) \in ValidationErrors) )
        => /\ l.pc = "done"
           /\ Status(l) = BadRequest
           /\ NoWalletCall(l)
           /\ NoRowsBy(l)
           /\ l.log = <<>>

\* the step in which handler h takes a request and answers it at once
AnswersAtOnce(h) ==
    /\ handler'[h] # handler[h]
    /\ handler'[h].req # handler[h].req
    /\ handler'[h].pc = "done"

C4_Step ==
    \A h \in Handlers :
        (AnswersAtOnce(h) /\ handler'[h].route = "get_invoice")
        => UNCHANGED <<users, invoice, zaps>>

\* C4: a callback that fails a validation check (amount absent, amount out of
\* bounds, unknown user, issuance disabled, invalid zap request) has ended
\* with an error without a wallet call and no row of the three tables was
\* written by it; the step that answers it leaves the users, invoice and zaps
\* tables unchanged.
C4_FailedValidationHasNoEffect == []C4_State /\ [][C4_Step]_vars

\* C4 witness: a callback for a user who has disabled issuance has ended, while
\* rows of other requests exist
C4_Witness ==
    \E h \in Callbacks :
        /\ handler[h].pc = "done"
        /\ UserDisabled(handler[h])
        /\ Reason(handler[h]) = IssuanceDisabled
        /\ invoice # {}

\* C5: the checks are applied in the order amount present, amount within
\* bounds, user exists, issuance not disabled, zap request valid, each with its
\* own error, and the error reported is that of the first violated check.
C5_FirstViolatedCheckIsReported ==
    /\ Cardinality(ValidationErrors) = 5
    /\ \A h \in Callbacks :
        LET l == handler[h] IN
        l.pc = "done" =>
          /\ AmountAbsent(l) => Reason(l) = MissingAmount
          /\ AmountOutside(l) => Reason(l) = AmountOutOfBounds
          /\ UserUnknown(l) => Reason(l) = UserNotFound
          /\ UserDisabled(l) => Reason(l) = IssuanceDisabled
          /\ (IsSome(l.seen) /\ ~UserUnknown(l) /\ ~UserDisabled(l)
                /\ ZapInvalid(l)) => Reason(l) = InvalidZapRequest
          /\ Reason(l) = MissingAmount => AmountAbsent(l)
          /\ Reason(l) = AmountOutOfBounds => AmountOutside(l)
          /\ Reason(l) = UserNotFound => UserUnknown(l)
          /\ Reason(l) = IssuanceDisabled => UserDisabled(l)
          /\ Reason(l) = InvalidZapRequest => ZapInvalid(l)

\* C5 witness: an invalid zap request for a user who has disabled issuance is
\* answered with the error of the earlier check
C5_Witness ==
    \E h \in Callbacks :
        /\ handler[h].pc = "done"
        /\ UserDisabled(handler[h]) /\ ZapInvalid(handler[h])
        /\ Reason(handler[h]) = IssuanceDisabled

\* C5 witness of the first example: no amount and an unknown user
C5_WitnessMissingAmountUnknownUser ==
    \E h \in Callbacks :
        /\ handler[h].pc = "done"
        /\ AmountAbsent(handler[h])
        /\ \A u \in users : u.name # handler[h].name
        /\ Reason(handler[h]) = MissingAmount

\* C6: the amount bounds are inclusive. A callback with an amount has failed
\* with AmountOutOfBounds exactly when the amount is strictly below
\* min_sendable or strictly above max_sendable, and then it wrote no row; an
\* amount equal to min_sendable or to max_sendable passes the bounds check.
C6_BoundsAreInclusive ==
    \A h \in Callbacks :
        LET l == handler[h]
            rejected == l.pc = "done" /\ Status(l) = BadRequest
                        /\ Reason(l) = AmountOutOfBounds
        IN
        IsSome(l.amount) =>
          /\ rejected <=> (Unwrap(l.amount) < min_sendable
                           \/ Unwrap(l.amount) > max_sendable)
          /\ rejected => (NoRowsBy(l) /\ NoWalletCall(l))
          /\ Unwrap(l.amount) \in {min_sendable, max_sendable} => ~rejected

\* C6 witness: an amount equal to max_sendable has passed the checks
C6_Witness ==
    \E h \in Callbacks :
        /\ handler[h].amount = Some(max_sendable)
        /\ Occurs(handler[h].log, "validated")

\* C6 witness: an amount equal to min_sendable has passed the checks
C6_WitnessMin ==
    \E h \in Callbacks :
        /\ handler[h].amount = Some(min_sendable)
        /\ Occurs(handler[h].log, "validated")

\* the step in which the callback served by handler h ends
CallbackEnds(h) ==
    /\ handler'[h] # handler[h]
    /\ handler'[h].route = "get_invoice"
    /\ handler'[h].pc = "done"

C7_Step ==
    /\ \A h \in Handlers :
        LET l == handler'[h] IN
        CallbackEnds(h) =>
          IF Unwrap(l.response).status = StatusOk
          THEN /\ \E i \in invoice' \ invoice :
                    /\ invoice' = invoice \cup {i}
                    /\ \A j \in invoice : j.id # i.id
                    /\ i.state = Pending
                    /\ i.amount_msats = Unwrap(l.amount)
                    /\ \E u \in users : u.id = i.user_id /\ u.name = l.name
               /\ IF IsSome(l.nostr)
                  THEN \E z \in zaps' \ zaps : zaps' = zaps \cup {z}
                  ELSE zaps' = zaps
          ELSE invoice' = invoice /\ zaps' = zaps
    /\ \A z \in zaps' :
        \E o \in origin' : o.table = "zaps" /\ o.id = z.id /\ IsSome(o.nostr)

\* C7: every successful callback creates exactly one new Invoice row, owned by
\* the named user, with the requested amount and state Pending; it creates
\* exactly one new Zap row if the request supplied a zap request and none if
\* it did not; a failed callback creates none. Every Zap row was committed by
\* a callback that supplied a zap request.
C7_OneInvoiceAndOptionalZap == [][C7_Step]_vars

\* C7 witness: a callback with a zap request has succeeded, and its two rows
\* are there
C7_Witness ==
    \E h \in Callbacks :
        LET l == handler[h] IN
        /\ l.pc = "done" /\ Status(l) = StatusOk
        /\ IsSome(l.nostr)
        /\ \E i \in invoice : i.bolt11.payment_hash = l.req
        /\ CommittedBy("zaps", l.req) # {}
        /\ zaps # {}

\* C8: user names are unique in every reachable state, whatever the
\* interleaving of register requests
C8_NamesAreUnique ==
    \A u \in users, v \in users : u.name = v.name => u = v

\* the step in which handler h takes a register request
RegisterArrives(h) ==
    /\ handler'[h].req # handler[h].req
    /\ handler'[h].route = "register"

\* the step in which the register request of handler h does its insert
RegisterInserts(h) ==
    /\ handler[h].pc = "register_insert"
    /\ handler'[h].pc = "done"

C9_Step ==
    \A h \in Handlers :
        LET l == handler'[h]
            taken == \E u \in users : u.name = l.name
            rsp == Unwrap(l.response)
        IN
        /\ (RegisterArrives(h) /\ taken) =>
              /\ users' = users
              /\ l.pc = "done"
              /\ rsp.status \in {BadRequest, InternalServerError}
              /\ rsp.status = BadRequest => rsp.body = "NameTaken"
              /\ IsSome(l.seen) => rsp.status = BadRequest
        /\ (RegisterArrives(h) /\ ~taken) =>
              /\ users' = users
              /\ IsSome(l.seen) => l.pc = "register_insert"
              /\ l.pc = "done" => rsp.status = InternalServerError
        /\ RegisterInserts(h) =>
              IF rsp.status = StatusOk
              THEN /\ \E row \in users' \ users :
                        /\ users' = users \cup {row}
                        /\ row.name = l.name /\ row.pubkey = l.pubkey
                        /\ \A u \in users : u.id # row.id
                   /\ rsp.body = [name |-> l.name]
              ELSE /\ users' = users
                   /\ rsp.status = InternalServerError

\* C9: register with a name that is present in the users table answers 400
\* NameTaken and leaves the users table as it was (a failure of the store
\* answers 500 and leaves it as it was too); with a name that is free, the
\* insert adds exactly one row with that name and pubkey and the name is
\* returned.
C9_RegisterTakenOrAdded == [][C9_Step]_vars

\* C9 witness: a register request for a taken name was answered NameTaken
C9_Witness ==
    \E h \in Registrations :
        LET l == handler[h] IN
        /\ l.pc = "done"
        /\ Status(l) = BadRequest
        /\ Unwrap(l.response).body = "NameTaken"
        /\ \E u \in users : u.name = l.name /\ u.pubkey # l.pubkey

\* C9 witness of the other case: a register request added its row
C9_WitnessAdded ==
    \E h \in Registrations :
        LET l == handler[h] IN
        /\ l.pc = "done"
        /\ Status(l) = StatusOk
        /\ \E u \in users : u.name = l.name /\ u.pubkey = l.pubkey

\* the state part of C10: the state column holds a value of InvoiceState
C10_StateIsInEnum ==
    \A i \in invoice : i.state \in {Pending, Settled, Cancelled}

\* C10: the Invoice lifecycle is Pending -> Settled or Pending -> Cancelled;
\* once an invoice is Settled or Cancelled its state never changes again
C10_TerminalStatesDoNotRevert ==
    [][\A i \in invoice : \A j \in invoice' :
          (j.id = i.id /\ i.state \in {Settled, Cancelled})
              => j.state = i.state]_vars

\* C11: every Zap row is bound to an Invoice row by the shared id: for each Zap
\* row there is an Invoice row with the same id, and that Invoice row was
\* committed by the same callback as the Zap row.
C11_ZapSharesInvoiceId ==
    \A z \in zaps :
        \E i \in invoice :
            /\ i.id = z.id
            /\ \E oz \in origin, oi \in origin :
                 /\ oz.table = "zaps" /\ oz.id = z.id
                 /\ oi.table = "invoice" /\ oi.id = i.id
                 /\ oz.req = oi.req

\* the Zap row that the request of locals l committed
ZapRowsOf(l) ==
    {z \in zaps : \E o \in CommittedBy("zaps", l.req) : o.id = z.id}

\* C12: for every successful callback that supplied a zap request, the request
\* column of its Zap row is the supplied nostr parameter verbatim, so the
\* digest of the stored text is the description hash the invoice commits to,
\* and the event_id of the row is empty.
C12_ZapRequestStoredVerbatim ==
    \A h \in Callbacks :
        LET l == handler[h] IN
        (l.pc = "done" /\ Status(l) = StatusOk /\ IsSome(l.nostr)) =>
            /\ ZapRowsOf(l) # {}
            /\ \A z \in ZapRowsOf(l) :
                 /\ z.request = Unwrap(l.nostr)
                 /\ Some(sha256(z.request)) = l.desc_hash
                 /\ z.event_id = None

\* the request of locals l ended because the wallet call returned an error
WalletFailed(l) ==
    l.pc = "done" /\ Occurs(l.log, "wallet_call") /\ IsNone(l.resp)

\* the request of locals l ended because the store failed: the connection
\* checkout or the user lookup (nothing was read for a good amount), an insert
\* or the commit (the transaction was rolled back)
StoreFailed(l) ==
    /\ l.pc = "done"
    /\ \/ Occurs(l.log, "rollback")
       \/ (l.log = <<>> /\ IsSome(l.amount) /\ ~AmountOutside(l)
             /\ IsNone(l.seen))

CollaboratorErrors == {PoolError, DbError, WalletError}

\* C13: the errors of the callback are classified. A validation failure is
\* answered 400 with the body {status: ERROR, reason}; a failure of the wallet
\* or of the store (connection checkout, insert, commit) is answered 500 with a
\* body that does not carry the collaborator's error text.
C13_ErrorsAreClassified ==
    \A h \in Callbacks :
        LET l == handler[h] IN
        l.pc = "done" =>
          /\ ( \/ AmountAbsent(l) \/ AmountOutside(l) \/ UserUnknown(l)
               \/ UserDisabled(l)
               \/ (IsSome(l.seen) /\ ZapInvalid(l)) )
                => /\ Status(l) = BadRequest
                   /\ Unwrap(l.response).body.status = "ERROR"
                   /\ Reason(l) \in ValidationErrors
          /\ (WalletFailed(l) \/ StoreFailed(l))
                => /\ Status(l) = InternalServerError
                   /\ Reason(l) \notin CollaboratorErrors

\* the validation part of C13 holds of the code
C13_ValidationFailuresAre400 ==
    \A h \in Callbacks :
        LET l == handler[h] IN
        (l.pc = "done"
           /\ ( \/ AmountAbsent(l) \/ AmountOutside(l) \/ UserUnknown(l)
                \/ UserDisabled(l)
                \/ (IsSome(l.seen) /\ ZapInvalid(l)) ))
            => /\ Status(l) = BadRequest
               /\ Unwrap(l.response).body.status = "ERROR"
               /\ Reason(l) \in ValidationErrors

\* the step in which handler h takes a verify request and answers it
VerifyAnswers(h) ==
    /\ handler'[h].req # handler[h].req
    /\ handler'[h].route = "verify"

\* the invoices in the store that a verify request of locals l asks about
Verified(l) ==
    {i \in invoice : /\ Some(i.bolt11.payment_hash) = l.pay_hash
                     /\ Some(i.bolt11.desc_hash) = l.desc_hash}

C14_Step ==
    \A h \in Handlers :
        LET l == handler'[h]
            rsp == Unwrap(l.response)
        IN
        VerifyAnswers(h) =>
          IF Verified(l) # {}
          THEN /\ rsp.status = StatusOk
               /\ \E i \in Verified(l) :
                    /\ rsp.body.settled = (i.state = Settled)
                    /\ rsp.body.preimage = i.preimage
          ELSE rsp.status # StatusOk

\* C14: verify, given the payment hash and the description hash of an invoice
\* that is in the store, reports settled (true exactly when the state of the
\* row is Settled) and the preimage of the row; it fails only when no invoice
\* matches.
C14_VerifyReportsState == [][C14_Step]_vars

\* the callbacks of locals k and l are for the same user with the same
\* parameters
SameRequest(k, l) ==
    /\ k.route = "get_invoice" /\ l.route = "get_invoice"
    /\ k.name = l.name /\ k.amount = l.amount /\ k.comment = l.comment
    /\ k.nostr = l.nostr

\* the Invoice rows that the request of locals l committed
InvoiceRowsOf(l) ==
    {i \in invoice : \E o \in CommittedBy("invoice", l.req) : o.id = i.id}

\* two callbacks for the same user with the same parameters that have both
\* succeeded have each committed an Invoice row of that user, with different
\* ids
C15_BothSucceededHaveDistinctRows ==
    \A g \in Callbacks, h \in Callbacks :
        LET k == handler[g]
            l == handler[h]
        IN
        (g # h /\ SameRequest(k, l)
           /\ k.pc = "done" /\ Status(k) = StatusOk
           /\ l.pc = "done" /\ Status(l) = StatusOk)
        => \E i \in InvoiceRowsOf(k), j \in InvoiceRowsOf(l) :
              /\ i.id # j.id
              /\ i.user_id = j.user_id
              /\ \A r \in InvoiceRowsOf(k) : r = i
              /\ \A r \in InvoiceRowsOf(l) : r = j

\* no step of the persistence of a valid callback is delayed or refused because
\* of another callback: whatever the other requests have done, each step can
\* be taken and can succeed
C15_NoCallbackHindersAnother ==
    \A h \in Callbacks :
        LET l == handler[h] IN
        /\ l.pc = "transaction" =>
              ENABLED (GetInvoiceInsertInvoice(h) /\ handler'[h].pc # "done")
        /\ l.pc = "insert_zap" =>
              ENABLED (GetInvoiceInsertZap(h) /\ handler'[h].pc = "commit")
        /\ l.pc = "commit" =>
              ENABLED (GetInvoiceCommit(h)
                         /\ Unwrap(handler'[h].response).status = StatusOk)

\* C15: callbacks are not deduplicated. Two valid callbacks for the same user
\* with the same parameters can both succeed, and then two Invoice rows with
\* different ids exist for that user; neither request is delayed or fails
\* because of the other.
C15_CallbacksAreNotDeduplicated ==
    C15_BothSucceededHaveDistinctRows /\ C15_NoCallbackHindersAnother

\* two callbacks for the same user with the same parameters, without a zap
\* request, have both succeeded
C15_BothSucceededWithoutZap ==
    \E g \in Callbacks, h \in Callbacks :
        /\ g # h /\ SameRequest(handler[g], handler[h])
        /\ IsNone(handler[h].nostr)
        /\ handler[g].pc = "done" /\ Status(handler[g]) = StatusOk
        /\ handler[h].pc = "done" /\ Status(handler[h]) = StatusOk
        /\ Cardinality(invoice) = 2

\* the transaction of the request of locals l was opened and did not commit
TransactionFailed(l) == l.pc = "done" /\ Occurs(l.log, "rollback")

\* C16: a callback answers {status: OK, pr} only if its transaction has
\* committed: whenever the response is OK, an Invoice row that this request
\* committed holds that payment-request string; when the transaction has
\* failed the response is an error without pr, although the wallet has minted
\* the invoice, and no row holds the minted invoice.
C16_OkOnlyAfterCommit ==
    \A h \in Callbacks :
        LET l == handler[h] IN
        /\ (l.pc = "done" /\ Status(l) = StatusOk) =>
              /\ Unwrap(l.response).body.status = "OK"
              /\ IsSome(Unwrap(l.response).body.pr)
              /\ Occurs(l.log, "commit")
              /\ \E i \in InvoiceRowsOf(l) :
                    i.bolt11 = Unwrap(Unwrap(l.response).body.pr)
        /\ TransactionFailed(l) =>
              /\ Status(l) # StatusOk
              /\ Unwrap(l.response).body.status = "ERROR"
              /\ Unwrap(l.response).body.pr = None
              /\ IsSome(l.resp)
              /\ \A i \in invoice : i.bolt11 # Unwrap(l.resp).invoice

\* C16 witness: the commit failed after the wallet had minted an invoice of the
\* requested amount, and no row holds that invoice
C16_Witness ==
    \E h \in Callbacks :
        LET l == handler[h] IN
        /\ TransactionFailed(l)
        /\ l.log = <<"validated", "wallet_call", "amount_checked", "begin",
                     "insert_invoice", "rollback">>
        /\ IsNone(l.zap_request)
        /\ Unwrap(l.resp).invoice.amount = l.amount
        /\ \A i \in invoice : i.bolt11 # Unwrap(l.resp).invoice

\* how often event e occurs in log
RECURSIVE Count(_, _)
Count(log, e) ==
    IF log = <<>> THEN 0
    ELSE (IF Head(log) = e THEN 1 ELSE 0) + Count(Tail(log), e)

\* C17: a callback calls the wallet at most once; when that call has returned
\* an error the request has failed at once with the wallet's error, without a
\* second call, without opening the transaction and without a row.
C17_WalletCalledAtMostOnce ==
    \A h \in Callbacks :
        LET l == handler[h] IN
        /\ Count(l.log, "wallet_call") <= 1
        /\ (Occurs(l.log, "wallet_call") /\ IsNone(l.resp)) =>
              /\ l.pc = "done"
              /\ Status(l) # StatusOk
              /\ Reason(l) = WalletError
              /\ l.log = <<"validated", "wallet_call">>
              /\ ~Occurs(l.log, "begin")
              /\ ~l.tx_open
              /\ NoRowsBy(l)

\* C17 witness: the wallet call of a callback has returned an error, while a
\* row of another request is in the store
C17_Witness ==
    \E h \in Callbacks :
        /\ WalletFailed(handler[h])
        /\ Reason(handler[h]) = WalletError
        /\ invoice # {}

\* the amount of the request of locals l is present and within the bounds
AmountGood(l) == IsSome(l.amount) /\ ~AmountOutside(l)

C18_State ==
    \A h \in Callbacks :
        LET l == handler[h] IN
        (AmountGood(l) /\ UserDisabled(l)) =>
            /\ l.pc = "done"
            /\ Status(l) = BadRequest
            /\ Reason(l) = IssuanceDisabled
            /\ NoWalletCall(l)
            /\ NoRowsBy(l)

\* the step in which handler h takes a callback request
CallbackArrives(h) ==
    /\ handler'[h].req # handler[h].req
    /\ handler'[h].route = "get_invoice"

C18_Step ==
    \A h \in Handlers :
        LET l == handler'[h] IN
        /\ (CallbackArrives(h)
              /\ (\E u \in users : u.name = l.name)
              /\ (\A u \in users : u.name = l.name => u.disabled_zaps))
            => /\ l.pc = "done"
               /\ Status(l) # StatusOk
               /\ (AmountGood(l) /\ IsSome(l.seen))
                    => Reason(l) = IssuanceDisabled
        /\ (handler[h].pc = "commit" /\ handler'[h] # handler[h])
            => \A i \in invoice' \ invoice :
                 /\ IsSome(l.seen) /\ IsSome(Unwrap(l.seen))
                 /\ Unwrap(Unwrap(l.seen)).id = i.user_id
                 /\ ~Unwrap(Unwrap(l.seen)).disabled_zaps

\* C18: for a user whose disabled_zaps is true, every callback with a present
\* amount within the bounds has failed with IssuanceDisabled, with or without
\* a zap request, and has created no row. Once User::disable_zaps has run for
\* a user, a callback that arrives later for that user ends in the step in
\* which it arrives, with an error; every Invoice row that is created belongs
\* to a request that read its user while disabled_zaps was false.
C18_DisabledUserGetsNoInvoice == []C18_State /\ [][C18_Step]_vars

\* C18 witness: a callback with a valid zap request and a good amount, for a
\* user on whom User::disable_zaps has run, has ended
C18_Witness ==
    \E h \in Callbacks :
        LET l == handler[h] IN
        /\ l.pc = "done"
        /\ AmountGood(l) /\ UserDisabled(l)
        /\ l.nostr = Some(ZapJson)
        /\ Reason(l) = IssuanceDisabled

\* the description hash that the inputs of the request of locals l determine
CommitmentOf(l) ==
    IF IsNone(l.nostr)
    THEN sha256(get_lnurl_pay(l.name).val.metadata)
    ELSE sha256(Unwrap(l.nostr))

\* C19: the description hash passed to the wallet is a function of the
\* request. Without a zap request it is the digest of calc_metadata(name,
\* domain), the metadata that the pay-parameters responder advertises for the
\* name; with a zap request it is the digest of the supplied text. The invoice
\* the wallet is asked for carries that hash, and two callbacks with the same
\* name and nostr parameter commit to the same hash, whatever their amount,
\* their comment and the state of the store.
C19_CommitmentIsDeterministic ==
    /\ \A h \in Callbacks :
         LET l == handler[h] IN
         /\ Occurs(l.log, "validated") =>
               /\ l.desc_hash = Some(CommitmentOf(l))
               /\ IsNone(l.nostr) =>
                     Unwrap(l.desc_hash) = sha256(calc_metadata(l.name, domain))
         /\ IsSome(l.resp) =>
               Unwrap(l.resp).invoice.desc_hash = CommitmentOf(l)
    /\ \A g \in Callbacks, h \in Callbacks :
         (/\ Occurs(handler[g].log, "validated")
          /\ Occurs(handler[h].log, "validated")
          /\ handler[g].name = handler[h].name
          /\ handler[g].nostr = handler[h].nostr)
         => handler[g].desc_hash = handler[h].desc_hash

\* C19 witness: two callbacks for the same name with different amounts have
\* had their invoices minted, one with a zap request that is not in the
\* canonical form, one without a zap request
C19_Witness ==
    \E g \in Callbacks, h \in Callbacks :
        /\ handler[g].name = handler[h].name
        /\ handler[g].amount # handler[h].amount
        /\ handler[g].nostr = Some(ZapJsonSpaced)
        /\ IsNone(handler[h].nostr)
        /\ IsSome(handler[g].resp) /\ IsSome(handler[h].resp)
        /\ handler[g].desc_hash # handler[h].desc_hash

\* C19 witness of the last part: two callbacks with the same name and the same
\* zap request but different amounts hold the same hash
C19_WitnessEqualInputs ==
    \E g \in Callbacks, h \in Callbacks :
        /\ g # h
        /\ handler[g].name = handler[h].name
        /\ handler[g].nostr = handler[h].nostr /\ IsSome(handler[h].nostr)
        /\ handler[g].amount # handler[h].amount
        /\ IsSome(handler[g].desc_hash)
        /\ handler[g].desc_hash = handler[h].desc_hash

C20_Step ==
    /\ \A i \in invoice :
         \E j \in invoice' :
            /\ j.id = i.id
            /\ j = [i EXCEPT !.state = j.state]
    /\ \A i \in invoice', j \in invoice' : i.id = j.id => i = j
    /\ (\E i \in invoice : i \notin invoice') =>
         /\ Cardinality(invoice \ invoice') = 1
         /\ Cardinality(invoice') = Cardinality(invoice)
         /\ UNCHANGED <<users, zaps, handler>>

\* C20: once an Invoice row is in the store its amount_msats, bolt11, user_id,
\* preimage and lnurlp_comment never change and the row is never removed. A
\* step that changes an existing row changes the state column of exactly one
\* row and nothing else in the store (it is Invoice::set_state); no step of a
\* request changes an existing row.
C20_InvoiceRowsAreImmutable == [][C20_Step]_vars

\* C20 witness: Invoice::set_state has settled one of two invoices and the
\* other one is still pending
C20_Witness ==
    \E i \in invoice, j \in invoice :
        /\ i.id # j.id
        /\ i.state = Settled
        /\ j.state = Pending

\* C21: every Invoice row, committed or pending in a transaction, has the
\* user_id of an existing users row, and that row has the name given in the
\* callback that created the Invoice row; ids of users rows are unique.
C21_InvoiceUserExists ==
    /\ \A u \in users, v \in users : u.id = v.id => u = v
    /\ \A i \in invoice :
         \E u \in users :
            /\ u.id = i.user_id
            /\ \E o \in origin :
                 o.table = "invoice" /\ o.id = i.id /\ o.name = u.name
    /\ \A h \in Callbacks :
         \A i \in handler[h].tx_invoice :
            \E u \in users : u.id = i.user_id /\ u.name = handler[h].name

\* C21 witness: a callback has committed an Invoice for a user that a register
\* request of this run has added
C21_Witness ==
    \E i \in invoice, o \in origin :
        /\ o.table = "users" /\ o.id = i.user_id
        /\ \E c \in origin :
             c.table = "invoice" /\ c.id = i.id /\ c.name = o.name

\* the wallet has minted, for the request of locals l, an invoice of exactly
\* the whole units of the requested amount
MintedExactUnits(l) ==
    /\ IsSome(l.resp)
    /\ Unwrap(l.resp).invoice.hrp = "lnbc"
    /\ Unwrap(l.resp).invoice.amount
         = Some((Unwrap(l.amount) \div MsatsPerUnit) * MsatsPerUnit)

\* C22: the wallet is asked for floor(amount_msats / 1000) units and the
\* returned invoice must carry exactly amount_msats. With a wallet that mints
\* an invoice of exactly the units it is given, a callback whose amount is not
\* a multiple of 1000 has failed with the amount-mismatch error and has
\* written no row, a callback whose amount is a multiple of 1000 has passed
\* the check, and every Invoice row holding such an invoice has an
\* amount_msats divisible by 1000; every Invoice row has an amount_msats
\* within [min_sendable, max_sendable].
C22_SubUnitAmountsAreRejected ==
    /\ \A h \in Callbacks :
         LET l == handler[h]
             a == Unwrap(l.amount)
             floor == a \div MsatsPerUnit
         IN
         /\ (IsSome(l.resp) /\ IsSome(Unwrap(l.resp).invoice.amount)) =>
               Unwrap(Unwrap(l.resp).invoice.amount)
                   \in {floor * MsatsPerUnit, floor * MsatsPerUnit + 500}
         /\ (MintedExactUnits(l) /\ a % MsatsPerUnit # 0) =>
               /\ l.pc = "done"
               /\ Reason(l) = InvoiceAmountMismatch
               /\ NoRowsBy(l)
         /\ (MintedExactUnits(l) /\ a % MsatsPerUnit = 0) =>
               /\ Occurs(l.log, "amount_checked")
               /\ l.pc = "done" => Reason(l) # InvoiceAmountMismatch
               /\ l.log = <<"validated", "wallet_call", "amount_checked">>
                     => l.pc = "transaction"
    /\ \A i \in invoice :
         /\ i.amount_msats >= min_sendable /\ i.amount_msats <= max_sendable
         /\ i.bolt11.amount
              = Some((i.amount_msats \div MsatsPerUnit) * MsatsPerUnit)
              => i.amount_msats % MsatsPerUnit = 0

\* C22 witness: a callback for min_sendable + 500 msat, for which the wallet
\* minted an invoice of min_sendable msat, has failed
C22_Witness ==
    \E h \in Callbacks :
        LET l == handler[h] IN
        /\ l.amount = Some(min_sendable + 500)
        /\ MintedExactUnits(l)
        /\ l.pc = "done"
        /\ Reason(l) = InvoiceAmountMismatch

\* C22 witness of the other case: a callback for a multiple of 1000 msat has
\* committed its Invoice
C22_WitnessWholeUnits ==
    \E h \in Callbacks :
        LET l == handler[h] IN
        /\ MintedExactUnits(l)
        /\ Unwrap(l.amount) % MsatsPerUnit = 0
        /\ l.pc = "done" /\ Status(l) = StatusOk
        /\ \E i \in invoice : i.amount_msats = Unwrap(l.amount)

====
